---- MODULE Spec2Model ----
(***************************************************************************)
(* Model of backend/api/main.py: the interview session workflow            *)
(* (chat_endpoint), the task artifact generator (create_task_excel), the   *)
(* artifact endpoints (download_task, check_task_file), the submission     *)
(* endpoint (upload_solution) and the grader (evaluate_excel_file).        *)
(*                                                                         *)
(* A text (Python str) is a sequence of pieces.  A piece is a one-character *)
(* string wherever the code inspects characters (strip, lower, upper, in)  *)
(* and a longer literal where the code only stores or concatenates it.     *)
(***************************************************************************)
EXTENDS Integers, Sequences, FiniteSets, TLC

VARIABLES
    interview_state,  \* main.py:26  user_id -> [history, turn, conceptual_feedback]
    files,            \* the two well-known paths: [template, task]
    resp,             \* what the last request returned
    generated,        \* per user: closing turns run (calls) and task files they
                      \* produced (made) for the record now stored
    inflight          \* the chat requests received together, each with the turn
                      \* counter its session had on arrival and whether it has run

vars == <<interview_state, files, resp, generated, inflight>>

-----------------------------------------------------------------------------
(* Bounds of the model *)

\* chat turns stop being enumerated once a history holds this many entries
MaxHist == 6

\* ... or once the stored histories hold this many entries together
MaxEntries == 6

\* the chat requests one run receives while others are waiting to be run
MaxInFlight == 3

-----------------------------------------------------------------------------
(* Text primitives: str.strip, str.lower, str.upper, substring test *)

UpperCase == <<"A","B","C","D","E","F","G","H","I","J","K","L","M",
               "N","O","P","Q","R","S","T","U","V","W","X","Y","Z">>
LowerCase == <<"a","b","c","d","e","f","g","h","i","j","k","l","m",
               "n","o","p","q","r","s","t","u","v","w","x","y","z">>

Whitespace == {" ", "\n", "\t", "\r"}

LowerCh(c) ==
    IF \E i \in 1..26 : UpperCase[i] = c
    THEN LowerCase[CHOOSE i \in 1..26 : UpperCase[i] = c]
    ELSE c

UpperCh(c) ==
    IF \E i \in 1..26 : LowerCase[i] = c
    THEN UpperCase[CHOOSE i \in 1..26 : LowerCase[i] = c]
    ELSE c

lower(s) == [i \in 1..Len(s) |-> LowerCh(s[i])]
upper(s) == [i \in 1..Len(s) |-> UpperCh(s[i])]

RECURSIVE lstrip(_)
lstrip(s) ==
    IF s = <<>> THEN s
    ELSE IF Head(s) \in Whitespace THEN lstrip(Tail(s)) ELSE s

RECURSIVE rstrip(_)
rstrip(s) ==
    IF s = <<>> THEN s
    ELSE IF s[Len(s)] \in Whitespace THEN rstrip(SubSeq(s, 1, Len(s) - 1)) ELSE s

strip(s) == rstrip(lstrip(s))

\* Python's `sub in s` on two str
Contains(sub, s) ==
    \E i \in 0..(Len(s) - Len(sub)) : SubSeq(s, i + 1, i + Len(sub)) = sub

RECURSIVE join(_, _)
\* sep.join(lines)
join(sep, lines) ==
    IF lines = <<>> THEN <<>>
    ELSE IF Len(lines) = 1 THEN lines[1]
    ELSE lines[1] \o sep \o join(sep, Tail(lines))

\* repr of a list of str, as an f-string renders it
repr_list(lines) ==
    <<"[">> \o join(<<",", " ">>, [i \in 1..Len(lines) |-> <<"'">> \o lines[i] \o <<"'">>]) \o <<"]">>

-----------------------------------------------------------------------------
(* Program constants *)

QUESTIONS ==
    << <<"What is the difference between a formula and a function in Excel? Give an example of each.">>,
       <<"Explain the purpose of a Pivot Table and when you would use one.">> >>

NQ == Len(QUESTIONS)

START == <<"s","t","a","r","t">>

DEFAULT_USER == "test_user"

intro_msg ==
    <<"Hello! I'm your AI Excel Interviewer. I'll ask 2 questions about Excel concepts first, then provide a practical task.">>

LLM_FALLBACK ==
    <<"Sorry, I'm having trouble connecting right now. Please try again later.">>

-----------------------------------------------------------------------------
(* Input domains *)

Users == {"test_user", "alice"}

\* request_body.message, before strip()
Messages ==
    { <<"s","t","a","r","t">>,
      <<" ","S","t","A","r","T","\n">>,
      <<"h","i"," ">> }

\* what the text-generation service does with one request: it fails (or returns
\* no content, which makes .strip() raise), or it returns this raw content
LLMOutcomes == {"fail", "review", "blank"}

LLMContent(o) ==
    IF o = "review" THEN <<" ", "Good answers. Estimated score: 70/100", "\n">>
    ELSE <<" ", "\n">>

-----------------------------------------------------------------------------
(* Workbooks and files *)

\* a cell value as openpyxl returns it: None, a str (formula text included,
\* since data_only=False), or a number
NoneCell == [t |-> "none", s |-> <<>>, n |-> 0]
Str(s)   == [t |-> "str", s |-> s, n |-> 0]
Num(n)   == [t |-> "num", s |-> <<>>, n |-> n]

\* what a path holds: nothing, bytes openpyxl cannot load, or a workbook
Workbook(a1, b1, c1, b2, c2) ==
    [exists |-> TRUE, readable |-> TRUE, A1 |-> a1, B1 |-> b1, C1 |-> c1, B2 |-> b2, C2 |-> c2]

Absent ==
    [exists |-> FALSE, readable |-> FALSE,
     A1 |-> NoneCell, B1 |-> NoneCell, C1 |-> NoneCell, B2 |-> NoneCell, C2 |-> NoneCell]

Unreadable == [Absent EXCEPT !.exists = TRUE]

\* the workbook create_task_excel builds: headers only
TemplateWorkbook ==
    Workbook(Str(<<"Data1">>), Str(<<"Data2">>), Str(<<"Result">>), NoneCell, NoneCell)

SumLower    == <<"=","s","u","m","(","a","1",":","a","1","0",")">>
SumOther    == <<"=","S","U","M","(","A","1",":","A","9",")">>
SumPlus     == <<"=","S","u","m","(","A","1",":","A","1","0",")","+","1">>
VLookupText == <<"=","v","l","o","o","k","u","p","(","A","2",")">>
XLookupText == <<"=","I","F","(","X","L","O","O","K","U","P","(","A","2",")",")">>
HLookupText == <<"=","H","L","O","O","K","U","P","(","A","2",")">>

Solved(b2, c2) == [TemplateWorkbook EXCEPT !.B2 = b2, !.C2 = c2]

\* the cell values a candidate may leave in B2 and in C2
B2Values == {NoneCell, Str(<<>>), Str(SumLower), Str(SumPlus), Str(SumOther), Num(0), Num(5)}
C2Values == {NoneCell, Str(<<>>), Str(VLookupText), Str(XLookupText), Str(HLookupText), Num(0), Num(7)}

AllSubmissions == {Unreadable} \cup {Solved(b, c) : b \in B2Values, c \in C2Values}

\* the submissions enumerated together with the session workflow
Submissions ==
    {Unreadable, Solved(Str(SumLower), Str(VLookupText))}

\* UploadFile.filename; the last one is the absolute path of the template
TASK_NAME     == "Task.xlsx"
TEMPLATE_PATH == "/app/api/task_template.xlsx"
FileNames     == {TASK_NAME, "solution.xlsx"}
AllFileNames  == FileNames \cup {TEMPLATE_PATH}

\* how a write to a path ends: done, refused before anything is written, or
\* broken off after the file was opened for writing
WriteOutcomes == {"ok", "fail", "partial"}

\* the file at a path after a write of `content` that ends as `w`
Written(old, content, w) ==
    IF w = "ok" THEN content
    ELSE IF w = "partial" THEN Unreadable
    ELSE old

-----------------------------------------------------------------------------
(* get_llm_response *)

\* `final_prompt` only selects the system prompt; the text returned is the
\* service's content stripped, or the fallback when the call raises
get_llm_response_NoFallback(messages, final_prompt, o) ==
    IF o = "fail" THEN <<>> ELSE strip(LLMContent(o))

get_llm_response(messages, final_prompt, o) ==
    IF o = "fail" THEN LLM_FALLBACK ELSE strip(LLMContent(o))

-----------------------------------------------------------------------------
(* create_task_excel *)

\* how the file system treats one call: every step works, or one step is the
\* first to fail (makedirs, the template's save, load_workbook, the task's save)
GenOutcomes ==
    {"ok", "mkdir", "tsave_fail", "tsave_partial", "load", "save_fail", "save_partial"}

TemplateWrite(io) ==
    IF io = "tsave_fail" THEN "fail" ELSE IF io = "tsave_partial" THEN "partial" ELSE "ok"

TaskWrite(io) ==
    IF io = "save_fail" THEN "fail" ELSE IF io = "save_partial" THEN "partial" ELSE "ok"

\* the generator writing the template on every call
create_task_excel_Rewrites(fs, io) ==
    IF io = "mkdir" THEN [files |-> fs, raised |-> TRUE]
    ELSE
      LET fs1 == [fs EXCEPT !.template = Written(fs.template, TemplateWorkbook, TemplateWrite(io))]
      IN  IF TemplateWrite(io) # "ok" THEN [files |-> fs1, raised |-> TRUE]
          ELSE IF io = "load" \/ ~fs1.template.readable THEN [files |-> fs1, raised |-> TRUE]
          ELSE [files  |-> [fs1 EXCEPT !.task = Written(fs1.task, fs1.template, TaskWrite(io))],
                raised |-> TaskWrite(io) # "ok"]

\* returns the files afterwards and whether the call raised
create_task_excel(fs, io) ==
    IF io = "mkdir" THEN [files |-> fs, raised |-> TRUE]
    ELSE
      LET absent == ~fs.template.exists
          fs1 == IF absent
                 THEN [fs EXCEPT !.template = Written(fs.template, TemplateWorkbook, TemplateWrite(io))]
                 ELSE fs
      IN  IF absent /\ TemplateWrite(io) # "ok" THEN [files |-> fs1, raised |-> TRUE]
          ELSE IF io = "load" \/ ~fs1.template.readable THEN [files |-> fs1, raised |-> TRUE]
          ELSE [files  |-> [fs1 EXCEPT !.task = Written(fs1.task, fs1.template, TaskWrite(io))],
                raised |-> TaskWrite(io) # "ok"]

-----------------------------------------------------------------------------
(* evaluate_excel_file *)

EXPECTED_SUM == <<"=","S","U","M","(","A","1",":","A","1","0",")">>
VLOOKUP == <<"V","L","O","O","K","U","P">>
XLOOKUP == <<"X","L","O","O","K","U","P">>

SumOkLine      == <<"Correctly used SUM formula in cell B2.">>
SumBadLine     == <<"Missing or incorrect SUM formula in cell B2.">>
LookupOkLine   == <<"Used a lookup function in cell C2.">>
LookupBadLine  == <<"Missing lookup function (VLOOKUP/XLOOKUP) in cell C2.">>
EvalErrorLine  == <<"Error evaluating Excel file.">>

\* Python truth value of a cell value
Truthy(v) ==
    IF v.t = "none" THEN FALSE
    ELSE IF v.t = "str" THEN v.s # <<>>
    ELSE v.n # 0

\* `v and pattern test on v.upper()`: a truthy value that is no str has no
\* upper() and raises
RaisesOnUpper(v) == Truthy(v) /\ v.t # "str"

Max(a, b) == IF a >= b THEN a ELSE b

\* the grader with an except branch that returns no feedback line
evaluate_excel_file_NoLine(doc) ==
    IF ~doc.exists \/ ~doc.readable \/ RaisesOnUpper(doc.B2) \/ RaisesOnUpper(doc.C2)
    THEN [score |-> 0, feedback |-> <<>>]
    ELSE
      LET sumOk  == Truthy(doc.B2) /\ Contains(upper(EXPECTED_SUM), upper(doc.B2.s))
          lookOk == Truthy(doc.C2)
                    /\ (Contains(VLOOKUP, upper(doc.C2.s)) \/ Contains(XLOOKUP, upper(doc.C2.s)))
      IN  [score |-> Max(100 - (IF sumOk THEN 0 ELSE 50) - (IF lookOk THEN 0 ELSE 50), 0),
           feedback |-> <<IF sumOk THEN SumOkLine ELSE SumBadLine,
                          IF lookOk THEN LookupOkLine ELSE LookupBadLine>>]

evaluate_excel_file(doc) ==
    IF ~doc.exists \/ ~doc.readable
    THEN [score |-> 0, feedback |-> <<EvalErrorLine>>]
    ELSE IF RaisesOnUpper(doc.B2)
    THEN [score |-> 0, feedback |-> <<EvalErrorLine>>]
    ELSE
      LET sumOk  == Truthy(doc.B2) /\ Contains(upper(EXPECTED_SUM), upper(doc.B2.s))
          score1 == IF sumOk THEN 100 ELSE 100 - 50
          fb1    == IF sumOk THEN <<SumOkLine>> ELSE <<SumBadLine>>
      IN  IF RaisesOnUpper(doc.C2)
          THEN [score |-> 0, feedback |-> <<EvalErrorLine>>]
          ELSE
            LET lookOk == Truthy(doc.C2)
                          /\ (Contains(VLOOKUP, upper(doc.C2.s)) \/ Contains(XLOOKUP, upper(doc.C2.s)))
                score2 == IF lookOk THEN score1 ELSE score1 - 50
                fb2    == IF lookOk THEN Append(fb1, LookupOkLine) ELSE Append(fb1, LookupBadLine)
            IN  [score |-> Max(score2, 0), feedback |-> fb2]

-----------------------------------------------------------------------------
(* State *)

Entry(role, content) == [role |-> role, content |-> content]

\* one shape for every endpoint's return value; a field an endpoint does not
\* return keeps its neutral value
Reply(op, user, code, status, response, has_feedback, feedback, exists) ==
    [op |-> op, user |-> user, code |-> code, status |-> status, response |-> response,
     has_feedback |-> has_feedback, conceptual_feedback |-> feedback, exists |-> exists]

NoReply == Reply("none", "", 0, "", <<>>, FALSE, <<>>, FALSE)

ChatReply(user, status, response) ==
    Reply("chat", user, 200, status, response, FALSE, <<>>, FALSE)

NoneGenerated == [calls |-> 0, made |-> 0]

Init ==
    /\ interview_state = <<>>
    /\ files = [template |-> Absent, task |-> Absent]
    /\ resp = NoReply
    /\ generated = [u \in Users |-> NoneGenerated]
    /\ inflight = <<>>

Stored(u) == u \in DOMAIN interview_state

Remove(store, u) == [v \in (DOMAIN store) \ {u} |-> store[v]]

-----------------------------------------------------------------------------
(* chat_endpoint *)

Begin(user_id) ==
    LET first_question == QUESTIONS[1]
        state == [history |-> <<Entry("assistant", intro_msg), Entry("assistant", first_question)>>,
                  turn |-> 1,
                  conceptual_feedback |-> <<>>]
    IN  /\ interview_state' = (user_id :> state) @@ interview_state
        /\ generated' = [generated EXCEPT ![user_id] = NoneGenerated]
        /\ resp' = ChatReply(user_id, "ongoing", intro_msg \o <<"\n", "\n">> \o first_question)
        /\ UNCHANGED files

\* the refusal that leaves an empty record behind for the id
NotStarted_Creates(user_id) ==
    /\ resp' = ChatReply(user_id, "not_started",
                         <<"Please click the start button to begin the interview.">>)
    /\ interview_state' = (user_id :> [history |-> <<>>, turn |-> 0,
                                       conceptual_feedback |-> <<>>]) @@ interview_state
    /\ UNCHANGED <<files, generated>>

NotStarted(user_id) ==
    /\ resp' = ChatReply(user_id, "not_started",
                         <<"Please click the start button to begin the interview.">>)
    /\ UNCHANGED <<interview_state, files, generated>>

\* Advance without `state["turn"] += 1`
Advance_NoIncrement(user_id, history) ==
    LET state == interview_state[user_id]
        next_question == QUESTIONS[state.turn + 1]
    IN  /\ interview_state' = [interview_state EXCEPT ![user_id] =
                [state EXCEPT !.history = Append(history, Entry("assistant", next_question))]]
        /\ resp' = ChatReply(user_id, "ongoing", next_question)
        /\ UNCHANGED <<files, generated>>

\* Advance that returns the next question without appending it to the history
Advance_NoQuestion(user_id, history) ==
    LET state == interview_state[user_id]
        next_question == QUESTIONS[state.turn + 1]
    IN  /\ interview_state' = [interview_state EXCEPT ![user_id] =
                [state EXCEPT !.history = history, !.turn = state.turn + 1]]
        /\ resp' = ChatReply(user_id, "ongoing", next_question)
        /\ UNCHANGED <<files, generated>>

\* state["turn"] < len(QUESTIONS); `history` already holds the user's message
\* Advance asking the question one place before the next one
Advance_Repeats(user_id, history) ==
    LET state == interview_state[user_id]
        next_question == QUESTIONS[state.turn]
    IN  /\ interview_state' = [interview_state EXCEPT ![user_id] =
                [state EXCEPT !.history = Append(history, Entry("assistant", next_question)),
                              !.turn = state.turn + 1]]
        /\ resp' = ChatReply(user_id, "ongoing", next_question)
        /\ UNCHANGED <<files, generated>>

Advance(user_id, history) ==
    LET state == interview_state[user_id]
        next_question == QUESTIONS[state.turn + 1]
    IN  /\ interview_state' = [interview_state EXCEPT ![user_id] =
                [state EXCEPT !.history = Append(history, Entry("assistant", next_question)),
                              !.turn = state.turn + 1]]
        /\ resp' = ChatReply(user_id, "ongoing", next_question)
        /\ UNCHANGED <<files, generated>>

\* the closing step with the turn counter moved by `turn_ok` when the task file
\* was made and by `turn_failed` when the generator raised
CloseConceptualMoving(user_id, history, llm, io, turn_ok, turn_failed) ==
    LET state == interview_state[user_id]
        conceptual_feedback == get_llm_response(history, TRUE, llm)
        gen == create_task_excel(files, io)
        g == generated[user_id]
    IN  /\ files' = gen.files
        /\ generated' = [generated EXCEPT ![user_id] =
                [calls |-> g.calls + 1,
                 made |-> IF gen.raised THEN g.made ELSE g.made + 1]]
        /\ interview_state' = [interview_state EXCEPT ![user_id] =
                [history |-> history,
                 turn |-> state.turn + (IF gen.raised THEN turn_failed ELSE turn_ok),
                 conceptual_feedback |-> conceptual_feedback]]
        /\ resp' = IF gen.raised
                   THEN ChatReply(user_id, "error",
                                  <<"Failed to generate task file. Interview cannot proceed.">>)
                   ELSE Reply("chat", user_id, 200, "task_ready",
                              <<"Conceptual questions complete. Please download the practical task.">>,
                              TRUE, conceptual_feedback, FALSE)

\* the closing step without `state["turn"] += 1  # Prevent re-generation`
CloseConceptualWith_NoGuard(user_id, history, llm, io) ==
    CloseConceptualMoving(user_id, history, llm, io, 0, 0)

\* the closing step with `state["turn"] += 1` moved in front of the try block
CloseConceptualWith_EarlyIncrement(user_id, history, llm, io) ==
    CloseConceptualMoving(user_id, history, llm, io, 1, 1)

\* state["turn"] == len(QUESTIONS)
CloseConceptualWith(user_id, history, llm, io) ==
    LET state == interview_state[user_id]
        conceptual_feedback == get_llm_response(history, TRUE, llm)
        gen == create_task_excel(files, io)
        g == generated[user_id]
    IN  /\ files' = gen.files
        /\ generated' = [generated EXCEPT ![user_id] =
                [calls |-> g.calls + 1,
                 made |-> IF gen.raised THEN g.made ELSE g.made + 1]]
        /\ IF ~gen.raised
           THEN /\ interview_state' = [interview_state EXCEPT ![user_id] =
                        [history |-> history,
                         turn |-> state.turn + 1,
                         conceptual_feedback |-> conceptual_feedback]]
                /\ resp' = Reply("chat", user_id, 200, "task_ready",
                                 <<"Conceptual questions complete. Please download the practical task.">>,
                                 TRUE, conceptual_feedback, FALSE)
           ELSE /\ interview_state' = [interview_state EXCEPT ![user_id] =
                        [history |-> history,
                         turn |-> state.turn,
                         conceptual_feedback |-> conceptual_feedback]]
                /\ resp' = ChatReply(user_id, "error",
                                     <<"Failed to generate task file. Interview cannot proceed.">>)

CloseConceptual(user_id, history) ==
    \E llm \in LLMOutcomes, io \in GenOutcomes : CloseConceptualWith(user_id, history, llm, io)

\* the fallback keeping only the message just received
AlreadyIssued_Reset(user_id, history) ==
    /\ interview_state' = [interview_state EXCEPT ![user_id].history = <<history[Len(history)]>>]
    /\ resp' = ChatReply(user_id, "task_ready",
                         <<"Interview already in progress. Please download the task file.">>)
    /\ UNCHANGED <<files, generated>>

\* the fallback counting the message as one more turn
AlreadyIssued_Counts(user_id, history) ==
    /\ interview_state' = [interview_state EXCEPT ![user_id] =
            [@ EXCEPT !.history = history, !.turn = @ + 1]]
    /\ resp' = ChatReply(user_id, "task_ready",
                         <<"Interview already in progress. Please download the task file.">>)
    /\ UNCHANGED <<files, generated>>

\* the fallback return
AlreadyIssued(user_id, history) ==
    /\ interview_state' = [interview_state EXCEPT ![user_id].history = history]
    /\ resp' = ChatReply(user_id, "task_ready",
                         <<"Interview already in progress. Please download the task file.">>)
    /\ UNCHANGED <<files, generated>>

\* the comparison without .lower()
IsStart_NoLower(user_message) == user_message = START

IsStart(user_message) == lower(user_message) = START

chat_endpoint(user_id, message) ==
    LET user_message == strip(message) IN
    IF IsStart(user_message) /\ ~Stored(user_id) THEN Begin(user_id)
    ELSE IF ~Stored(user_id) THEN NotStarted(user_id)
    ELSE
      LET state == interview_state[user_id]
          history == Append(state.history, Entry("user", user_message))
      IN  IF state.turn < Len(QUESTIONS) THEN Advance(user_id, history)
          ELSE IF state.turn = Len(QUESTIONS) THEN CloseConceptual(user_id, history)
          ELSE AlreadyIssued(user_id, history)

RECURSIVE Entries(_, _)
\* the number of history entries the records of the users in `us` hold
Entries(store, us) ==
    IF us = {} THEN 0
    ELSE LET u == CHOOSE v \in us : TRUE
         IN  Len(store[u].history) + Entries(store, us \ {u})

\* the histories the model lets grow
Room(user_id) ==
    /\ Stored(user_id) => Len(interview_state[user_id].history) < MaxHist
    /\ Entries(interview_state, DOMAIN interview_state) < MaxEntries

Chat(user_id, message) ==
    /\ Room(user_id)
    /\ chat_endpoint(user_id, message)
    /\ UNCHANGED inflight

-----------------------------------------------------------------------------
(* download_task, check_task_file *)

download_task ==
    /\ resp' = IF files.task.exists
               THEN Reply("download_task", "", 200, "", <<TASK_NAME>>, FALSE, <<>>, FALSE)
               ELSE Reply("download_task", "", 404, "", <<"Task file not found.">>, FALSE, <<>>, FALSE)
    /\ UNCHANGED <<interview_state, files, generated, inflight>>

check_task_file ==
    /\ resp' = Reply("check_task_file", "", 200, "", <<>>, FALSE, <<>>, files.task.exists)
    /\ UNCHANGED <<interview_state, files, generated, inflight>>

-----------------------------------------------------------------------------
(* upload_solution *)

\* os.path.join(temp_dir, file.filename): the tracked path the upload lands on
Target(filename) ==
    IF filename = TASK_NAME THEN "task"
    ELSE IF filename = TEMPLATE_PATH THEN "template"
    ELSE "other"

Summary(score, feedback) ==
    <<"Practical task scored ", ToString(score), "/100. Feedback: ">> \o repr_list(feedback)

Report(score, feedback, final_feedback) ==
    <<"Score: ", ToString(score), "/100\n\nFeedback:\n- ">> \o join(<<"\n- ">>, feedback)
      \o (IF final_feedback # <<>> THEN <<"\n\nLLM Feedback:\n">> \o final_feedback ELSE <<>>)

\* the graded submission that empties the whole store
StoreGraded_Clear(user_id, graded, llm) ==
    LET history == Append(interview_state[user_id].history,
                          Entry("assistant", Summary(graded.score, graded.feedback)))
        final_feedback == get_llm_response(history, TRUE, llm)
    IN  /\ interview_state' = <<>>
        /\ generated' = [u \in Users |-> NoneGenerated]
        /\ resp' = Reply("upload_solution", "", 200, "",
                         Report(graded.score, graded.feedback, final_feedback),
                         FALSE, <<>>, FALSE)

StoreGraded(user_id, graded, llm) ==
    LET history == Append(interview_state[user_id].history,
                          Entry("assistant", Summary(graded.score, graded.feedback)))
        final_feedback == get_llm_response(history, TRUE, llm)
    IN  /\ interview_state' = Remove(interview_state, user_id)
        /\ generated' = [generated EXCEPT ![user_id] = NoneGenerated]
        /\ resp' = Reply("upload_solution", "", 200, "",
                         Report(graded.score, graded.feedback, final_feedback),
                         FALSE, <<>>, FALSE)

upload_solution(filename, content, w) ==
    LET target == Target(filename)
        old == IF target = "other" THEN Absent ELSE files[target]
        now == Written(old, content, w)
        graded == evaluate_excel_file(now)
        user_id == DEFAULT_USER
    IN  /\ files' = IF target = "other" THEN files ELSE [files EXCEPT ![target] = now]
        /\ IF w # "ok"
           THEN /\ resp' = Reply("upload_solution", "", 500, "", <<"OSError">>, FALSE, <<>>, FALSE)
                /\ UNCHANGED <<interview_state, generated>>
           ELSE IF Stored(user_id)
           THEN \E llm \in LLMOutcomes : StoreGraded(user_id, graded, llm)
           ELSE /\ resp' = Reply("upload_solution", "", 200, "",
                                 Report(graded.score, graded.feedback, <<>>), FALSE, <<>>, FALSE)
                /\ UNCHANGED <<interview_state, generated>>

Upload ==
    /\ \E filename \in FileNames, content \in Submissions, w \in WriteOutcomes :
          upload_solution(filename, content, w)
    /\ UNCHANGED inflight

-----------------------------------------------------------------------------
(* Specification: any sequence of requests, one at a time *)

Next ==
    \/ \E u \in Users, m \in Messages : Chat(u, m)
    \/ Upload
    \/ download_task
    \/ check_task_file

Spec == Init /\ [][Next]_vars

\* The grader on every shape of submission, next to one session's workflow
UploadAny ==
    /\ \E content \in AllSubmissions, w \in WriteOutcomes :
          upload_solution("solution.xlsx", content, w)
    /\ UNCHANGED inflight

NextGrade ==
    \/ \E m \in Messages : Chat(DEFAULT_USER, m)
    \/ UploadAny

SpecGrade == Init /\ [][NextGrade]_vars

\* Chat requests in flight together.  A request is received (Arrive) and its
\* handler is run later (Run), in any order among the requests waiting.
\* chat_endpoint is a coroutine without an await: once started it runs to its
\* return before the event loop starts another one.
Arrive(user_id, message) ==
    /\ Len(inflight) < MaxInFlight
    /\ inflight' = Append(inflight,
                          [user |-> user_id, message |-> message,
                           at |-> IF Stored(user_id) THEN interview_state[user_id].turn ELSE 0,
                           done |-> FALSE])
    /\ UNCHANGED <<interview_state, files, resp, generated>>

\* the handler suspended between reading the turn counter and writing it: an
\* Advance that asks QUESTIONS[turn] and sets turn from the value the counter
\* had when the request arrived
Run_Suspended(i) ==
    LET r == inflight[i] IN
    /\ ~r.done
    /\ Room(r.user)
    /\ IF Stored(r.user) /\ r.at >= 1 /\ r.at < Len(QUESTIONS)
       THEN LET state == interview_state[r.user]
                next_question == QUESTIONS[r.at + 1]
            IN  /\ interview_state' = [interview_state EXCEPT ![r.user] =
                        [state EXCEPT !.history = state.history \o
                                          <<Entry("user", strip(r.message)),
                                            Entry("assistant", next_question)>>,
                                      !.turn = r.at + 1]]
                /\ resp' = ChatReply(r.user, "ongoing", next_question)
                /\ UNCHANGED <<files, generated>>
       ELSE chat_endpoint(r.user, r.message)
    /\ inflight' = [inflight EXCEPT ![i].done = TRUE]

Run(i) ==
    LET r == inflight[i] IN
    /\ ~r.done
    /\ Room(r.user)
    /\ chat_endpoint(r.user, r.message)
    /\ inflight' = [inflight EXCEPT ![i].done = TRUE]

NextConc ==
    \/ \E u \in Users, m \in Messages : Arrive(u, m)
    \/ \E i \in 1..Len(inflight) : Run(i)

SpecConc == Init /\ [][NextConc]_vars

-----------------------------------------------------------------------------
(* Vocabulary of the properties *)

\* the answers a stored session has received: its history's user entries
Answers(u) ==
    Cardinality({i \in 1..Len(interview_state[u].history) :
                    interview_state[u].history[i].role = "user"})

Turn(u) == interview_state[u].turn
History(u) == interview_state[u].history

IsPrefix(s, t) == Len(s) <= Len(t) /\ SubSeq(t, 1, Len(s)) = s

\* the messages of Messages that are the start keyword once trimmed and
\* compared without regard to case
StartTexts == { <<"s","t","a","r","t">>, <<" ","S","t","A","r","T","\n">> }

-----------------------------------------------------------------------------
(* C1 *)

\* C1: after the start turn and k further answers, k < len(QUESTIONS), the
\* turn counter of the session is k+1; the turn counter of a stored session
\* is never above len(QUESTIONS)+1.
C1_TurnCounter ==
    \A u \in DOMAIN interview_state :
        /\ Answers(u) < Len(QUESTIONS) => Turn(u) = Answers(u) + 1
        /\ Turn(u) <= Len(QUESTIONS) + 1

\* a session that has answered every question but the last
C1_Witness ==
    \E u \in DOMAIN interview_state :
        Answers(u) = Len(QUESTIONS) - 1 /\ Turn(u) = Len(QUESTIONS)

-----------------------------------------------------------------------------
(* C2 *)

HistoryNeverShorter ==
    \A u \in Users :
        (Stored(u) /\ (u \in DOMAIN interview_state'))
            => Len(interview_state'[u].history) >= Len(History(u))

\* C2 as stated: up to and including the answer to the last question the
\* history holds exactly 2 + 2*(answers) entries, and it never gets shorter.
C2_LengthAsStated ==
    /\ [](\A u \in DOMAIN interview_state :
            Answers(u) <= Len(QUESTIONS) => Len(History(u)) = 2 + 2 * Answers(u))
    /\ [][HistoryNeverShorter]_vars

\* C2 amended: the history holds 2 + 2*(answers) entries while fewer than
\* len(QUESTIONS) answers have come in; the answer to the last question adds
\* one entry only (no question follows it), as does every answer after it:
\* from then on it holds 1 + len(QUESTIONS) + answers. It never gets shorter.
C2_Length ==
    /\ [](\A u \in DOMAIN interview_state :
            Len(History(u)) = IF Answers(u) < Len(QUESTIONS)
                              THEN 2 + 2 * Answers(u)
                              ELSE 1 + Len(QUESTIONS) + Answers(u))
    /\ [][HistoryNeverShorter]_vars

\* the answer to the last question has been stored
C2_Witness ==
    \E u \in DOMAIN interview_state :
        Answers(u) = Len(QUESTIONS) /\ Len(History(u)) = 1 + 2 * Len(QUESTIONS)

-----------------------------------------------------------------------------
(* C3 *)

\* C3: an operation that finds a session stored and leaves it stored keeps its
\* history as a prefix of the new one and leaves the turn counter or adds 1.
C3_AppendOnly ==
    [][\A u \in Users :
          (Stored(u) /\ (u \in DOMAIN interview_state'))
              => /\ IsPrefix(History(u), interview_state'[u].history)
                 /\ interview_state'[u].turn \in {Turn(u), Turn(u) + 1}]_vars

\* a session on which turns of every kind have acted: questions, closing, and
\* a message after the task was issued
C3_Witness ==
    \E u \in DOMAIN interview_state :
        Turn(u) = Len(QUESTIONS) + 1 /\ Answers(u) = Len(QUESTIONS) + 1

-----------------------------------------------------------------------------
(* C4 *)

\* C4: the start keyword, in any case and with surrounding blanks, for an id
\* with no session creates the session [introduction, QUESTIONS[0]], turn 1,
\* no conceptual feedback, and returns 'ongoing' with both texts.
C4_Begin ==
    [][\A u \in Users, m \in StartTexts :
          (~Stored(u) /\ Chat(u, m))
              => /\ u \in DOMAIN interview_state'
                 /\ interview_state'[u].history =
                        <<Entry("assistant", intro_msg), Entry("assistant", QUESTIONS[1])>>
                 /\ interview_state'[u].turn = 1
                 /\ interview_state'[u].conceptual_feedback = <<>>
                 /\ resp'.status = "ongoing"
                 /\ resp'.response = intro_msg \o <<"\n", "\n">> \o QUESTIONS[1]]_vars

\* a session just created by the start keyword
C4_Witness ==
    \E u \in DOMAIN interview_state :
        /\ resp.op = "chat" /\ resp.user = u /\ resp.status = "ongoing"
        /\ Turn(u) = 1 /\ Len(History(u)) = 2

-----------------------------------------------------------------------------
(* C5 *)

\* the last request was a chat turn of stored session u
LastChat(u) == resp.op = "chat" /\ resp.user = u /\ Stored(u)

\* C5: start and then len(QUESTIONS) answers, the task file being generated,
\* end in 'task_ready' with a non-empty conceptualFeedback, the Task file in
\* place and the turn counter at len(QUESTIONS)+1; no turn before that one
\* returns 'task_ready'.
C5_TaskReady ==
    \A u \in Users :
        LastChat(u) =>
            /\ Answers(u) < Len(QUESTIONS) => resp.status # "task_ready"
            /\ (Answers(u) = Len(QUESTIONS) /\ generated[u].made = 1)
                   => /\ resp.status = "task_ready"
                      /\ resp.has_feedback
                      /\ resp.conceptual_feedback # <<>>
                      /\ files.task.exists
                      /\ Turn(u) = Len(QUESTIONS) + 1

-----------------------------------------------------------------------------
(* C6 *)

\* C6: once the task has been issued to a session, every later chat turn of
\* the session returns 'task_ready' and none of them runs the generator; the
\* chat turns of one session produce the Task file at most once.
C6_IssuedOnce ==
    /\ [](\A u \in DOMAIN interview_state :
            /\ generated[u].made <= 1
            /\ (generated[u].made = 1 /\ LastChat(u)) => resp.status = "task_ready")
    /\ [][\A u \in Users :
            (Stored(u) /\ generated[u].made >= 1 /\ (u \in DOMAIN interview_state'))
                => generated'[u] = generated[u]]_vars

\* a chat turn has come in after the one that issued the task
C6_Witness ==
    \E u \in DOMAIN interview_state :
        /\ generated[u].made = 1 /\ Answers(u) > Len(QUESTIONS)
        /\ LastChat(u) /\ ~resp.has_feedback

-----------------------------------------------------------------------------
(* C7 *)

-----------------------------------------------------------------------------
(* C8 *)

\* the step is a chat turn of u: every request leaves its own reply in resp,
\* and a chat turn of a stored session changes the session
ChatStep(u) ==
    resp'.op = "chat" /\ resp'.user = u /\ interview_state' # interview_state

\* C8: when the generator fails in the closing turn, the turn returns 'error',
\* the session stays stored with its turn counter at len(QUESTIONS), and the
\* session's next chat turn runs the closing step (feedback, generator) again.
C8_ErrorRetryable ==
    /\ [](\A u \in Users :
            (resp.op = "chat" /\ resp.user = u /\ resp.status = "error")
                => Stored(u) /\ Turn(u) = Len(QUESTIONS))
    /\ [][\A u \in Users :
            (Stored(u) /\ Turn(u) = Len(QUESTIONS) /\ Answers(u) >= Len(QUESTIONS)
               /\ ChatStep(u))
                => /\ generated'[u].calls = generated[u].calls + 1
                   /\ resp'.status \in {"task_ready", "error"}
                   /\ generated'[u].made = generated[u].made
                          => resp'.status = "error"]_vars

\* a closing turn failed and the next one was run
C8_Witness ==
    \E u \in DOMAIN interview_state :
        generated[u].calls = 2 /\ generated[u].made = 1

-----------------------------------------------------------------------------
(* C9 *)

\* C9: whatever the id of the candidate, a successfully graded submission of
\* a candidate whose task was issued removes that candidate's session.  The
\* submission carries no id; it is the candidate's own where that candidate's
\* session is the only one stored.
C9_SubmissionEndsSession ==
    [][\A u \in Users :
          (/\ DOMAIN interview_state = {u}
           /\ Turn(u) = Len(QUESTIONS) + 1
           /\ Upload
           /\ resp'.code = 200)
              => u \notin DOMAIN interview_state']_vars

-----------------------------------------------------------------------------
(* C10 *)

\* the cell values that hold formula text with the pattern of each rule
SumPassing    == {Str(SumLower), Str(SumPlus)}
LookupPassing == {Str(VLookupText), Str(XLookupText)}

\* 100 minus the penalties of the failed rules, not below 0
RubricScore(doc) ==
    Max(0, 100 - (IF doc.B2 \in SumPassing THEN 0 ELSE 50)
               - (IF doc.C2 \in LookupPassing THEN 0 ELSE 50))

\* C10: for every submission that can be opened, whatever B2 and C2 hold, the
\* score reported is 100 minus the penalties of the failed rules, not below 0.
C10_Score ==
    [][\A content \in AllSubmissions :
          (content.readable /\ upload_solution("solution.xlsx", content, "ok"))
              => resp'.response[2] = ToString(RubricScore(content))]_vars

-----------------------------------------------------------------------------
(* C11 *)

LLM_HEADER == "\n\nLLM Feedback:\n"

\* the report's feedback lines are exactly `lines`: they follow the score and
\* end the report, or the synthesized feedback follows them
ReportsLines(report, lines) ==
    LET body == join(<<"\n- ">>, lines)
    IN  /\ Len(report) >= 3 + Len(body)
        /\ SubSeq(report, 4, 3 + Len(body)) = body
        /\ Len(report) > 3 + Len(body) => report[4 + Len(body)] = LLM_HEADER

\* C11: for every submission that can be opened the grader returns one line
\* per rule, the B2 rule first and the C2 rule second, the positive line iff
\* the rule passed; the header-only task copy scores 0 with the two
\* deficiency lines.
C11_Lines ==
    [][\A content \in AllSubmissions :
          (content.readable /\ upload_solution("solution.xlsx", content, "ok"))
              => /\ ReportsLines(resp'.response,
                        <<IF content.B2 \in SumPassing THEN SumOkLine ELSE SumBadLine,
                          IF content.C2 \in LookupPassing THEN LookupOkLine ELSE LookupBadLine>>)
                 /\ content = TemplateWorkbook => resp'.response[2] = "0"]_vars

-----------------------------------------------------------------------------
(* C12 *)

\* C12: a submission that cannot be opened is answered by a report, never by
\* an error: score 0 and the one generic failure line.
C12_Unparsable ==
    [][\A filename \in FileNames :
          upload_solution(filename, Unreadable, "ok")
              => /\ resp'.code = 200
                 /\ resp'.response[2] = "0"
                 /\ ReportsLines(resp'.response, <<EvalErrorLine>>)]_vars

\* the report on a submission that could not be opened
C12_Witness ==
    /\ resp.op = "upload_solution" /\ resp.code = 200
    /\ resp.response[2] = "0"
    /\ ReportsLines(resp.response, <<EvalErrorLine>>)

-----------------------------------------------------------------------------
(* C13 *)

\* the report ends with the synthesized feedback `text`
EndsWithFeedback(report, text) ==
    /\ Len(report) > Len(text) + 1
    /\ SubSeq(report, Len(report) - Len(text), Len(report)) = <<LLM_HEADER>> \o text

\* C13: a failing text-generation call is never seen as an exception or an
\* error status.  Every closing turn answers 200 with 'task_ready' and the
\* turn counter advanced, or with 'error' and the counter kept, as the
\* generator alone decides; a closing turn whose call failed does so too and
\* leaves the fallback string as the feedback.  A graded submission deletes
\* the session and answers 200 whatever the call did, a failed call putting
\* the fallback string in the report.
C13_FallbackAbsorbed ==
    /\ [][\A u \in Users :
            (Stored(u) /\ Turn(u) = Len(QUESTIONS) /\ ChatStep(u))
                => /\ resp'.code = 200
                   /\ resp'.status \in {"task_ready", "error"}
                   /\ resp'.status = "error" <=> generated'[u].made = generated[u].made
                   /\ interview_state'[u].turn =
                          Turn(u) + IF resp'.status = "error" THEN 0 ELSE 1
                   /\ \A io \in GenOutcomes :
                         CloseConceptualWith(u, interview_state'[u].history, "fail", io)
                             => LET failed == create_task_excel(files, io).raised
                                IN  /\ resp'.status = IF failed THEN "error" ELSE "task_ready"
                                    /\ interview_state'[u].conceptual_feedback = LLM_FALLBACK
                                    /\ ~failed => resp'.conceptual_feedback = LLM_FALLBACK]_vars
    /\ [][(Stored(DEFAULT_USER) /\ resp'.op = "upload_solution" /\ resp'.code = 200)
            => /\ ~(DEFAULT_USER \in DOMAIN interview_state')
               /\ \A content \in Submissions :
                     StoreGraded(DEFAULT_USER, evaluate_excel_file(content), "fail")
                         => EndsWithFeedback(resp'.response, LLM_FALLBACK)]_vars

\* the conceptual phase was closed with the fallback string as its feedback
C13_Witness ==
    \E u \in DOMAIN interview_state :
        /\ LastChat(u) /\ resp.status = "task_ready"
        /\ resp.conceptual_feedback = LLM_FALLBACK
        /\ interview_state[u].conceptual_feedback = LLM_FALLBACK

-----------------------------------------------------------------------------
(* C14 *)

\* C14: from a state without the Task file, as long as no turn has returned
\* 'task_ready', fetching the task yields 404 and the existence check false.
\* No operation removes a file and a fetch succeeds iff the file is there, so
\* this is: the Task file comes into being only in a step that returns
\* 'task_ready'.
C14_NotFoundBeforeReady ==
    /\ [](resp.op = "download_task" => (resp.code = 404 <=> ~files.task.exists))
    /\ [](resp.op = "check_task_file" => (resp.exists <=> files.task.exists))
    /\ [][(~files.task.exists /\ files'.task.exists)
            => (resp'.op = "chat" /\ resp'.status = "task_ready")]_vars

-----------------------------------------------------------------------------
(* C15 *)

\* C15: whatever the sessions that generate, the template file is written
\* only while absent and never changes once it exists, and every successful
\* generation leaves the Task file a copy of the template.
C15_TemplateOnce ==
    /\ [][files.template.exists => files'.template = files.template]_vars
    /\ [][files'.template # files.template
            => files'.template \in {TemplateWorkbook, Unreadable}]_vars
    /\ [][\A u \in Users :
            (Stored(u) /\ ChatStep(u) /\ generated'[u].made = generated[u].made + 1)
                => /\ files'.template.readable
                   /\ files'.task = files'.template]_vars

\* a generation that failed and a later one that succeeded, the template kept
\* and the Task file a copy of it
C15_Witness ==
    \E u \in DOMAIN interview_state :
        /\ generated[u].calls >= 2 /\ generated[u].made = 1
        /\ files.template = TemplateWorkbook
        /\ files.task = files.template

-----------------------------------------------------------------------------
(* C16 *)

\* C16: a chat turn whose text is not the start keyword, for an id without a
\* stored session, returns 'not_started' and leaves the session store and the
\* files as they were.
C16_NotStarted ==
    [][\A u \in Users, m \in Messages \ StartTexts :
          (~Stored(u) /\ Chat(u, m))
              => /\ resp'.status = "not_started"
                 /\ resp'.code = 200
                 /\ interview_state' = interview_state
                 /\ files' = files]_vars

\* an id without a session was refused while another session was stored
C16_Witness ==
    /\ resp.op = "chat" /\ resp.status = "not_started"
    /\ ~Stored(resp.user)
    /\ DOMAIN interview_state # {}

-----------------------------------------------------------------------------
(* C17 *)

\* C17: over the life of one session record, retried 'error' turns included,
\* conceptual_feedback is assigned at most once, and only by the turn that
\* closes the conceptual phase (generated[u].calls counts the assignments).
C17_AssignedOnce ==
    /\ [](\A u \in DOMAIN interview_state : generated[u].calls <= 1)
    /\ [][\A u \in Users :
            (Stored(u) /\ ChatStep(u) /\ generated'[u].calls # generated[u].calls)
                => Turn(u) = Len(QUESTIONS)]_vars

-----------------------------------------------------------------------------
(* C18 *)

IsAssistant(e) == e.role = "assistant"

\* what the interviewer said in a session, in order
Asked(u) == SelectSeq(History(u), IsAssistant)

Min(a, b) == IF a < b THEN a ELSE b

\* C18: with chat turns one at a time, the interviewer's entries of a stored
\* session's history are the introduction and then QUESTIONS[1..min(turn,
\* len(QUESTIONS))] in order, each once, and every Advance turn returns the
\* question it has just appended.
C18_QuestionsInOrder ==
    /\ [](\A u \in DOMAIN interview_state :
            /\ Len(Asked(u)) = 1 + Min(Turn(u), Len(QUESTIONS))
            /\ Asked(u)[1].content = intro_msg
            /\ \A i \in 1..Min(Turn(u), Len(QUESTIONS)) :
                  Asked(u)[i + 1].content = QUESTIONS[i])
    /\ [][\A u \in Users :
            (Stored(u) /\ Turn(u) < Len(QUESTIONS) /\ ChatStep(u))
                => LET h == interview_state'[u].history
                   IN  /\ resp'.status = "ongoing"
                       /\ Len(h) = Len(History(u)) + 2
                       /\ h[Len(h)] = Entry("assistant", resp'.response)
                       /\ resp'.response = QUESTIONS[Turn(u) + 1]]_vars

\* an Advance turn has just returned the last question
C18_Witness ==
    \E u \in DOMAIN interview_state :
        /\ LastChat(u) /\ resp.status = "ongoing"
        /\ Turn(u) = Len(QUESTIONS)
        /\ resp.response = QUESTIONS[Len(QUESTIONS)]
        /\ History(u)[Len(History(u))].content = resp.response

-----------------------------------------------------------------------------
(* C20 *)

\* the records of the ids other than the default one
Others(store) == [u \in (DOMAIN store) \ {DEFAULT_USER} |-> store[u]]

\* C20: a submission changes the store only through the record of
\* 'test_user': a graded submission deletes that record whatever its phase,
\* every other record stays as it is, and no operation ever removes the
\* session of another id; without a 'test_user' record the store is unchanged
\* and the report carries no synthesized feedback.
C20_DefaultUserOnly ==
    /\ [][resp'.op = "upload_solution"
            => /\ Others(interview_state') = Others(interview_state)
               /\ resp'.code = 200 => ~(DEFAULT_USER \in DOMAIN interview_state')
               /\ resp'.code # 200 => interview_state' = interview_state
               /\ ~Stored(DEFAULT_USER)
                     => /\ interview_state' = interview_state
                        /\ resp'.code = 200 =>
                              \A i \in 1..Len(resp'.response) :
                                  resp'.response[i] # LLM_HEADER]_vars
    /\ [][\A u \in (DOMAIN interview_state) \ {DEFAULT_USER} :
            u \in DOMAIN interview_state']_vars

\* a graded submission has deleted the 'test_user' record and left the other
\* id's session, still in its conceptual phase, in place
C20_Witness ==
    /\ resp.op = "upload_solution" /\ resp.code = 200
    /\ \E i \in 1..Len(resp.response) : resp.response[i] = LLM_HEADER
    /\ ~Stored(DEFAULT_USER)
    /\ \E u \in DOMAIN interview_state : Turn(u) < Len(QUESTIONS)

-----------------------------------------------------------------------------
(* C19 *)

\* the turn counter of u is behind the answers its history holds
LostUpdate(u) == Turn(u) < Min(Answers(u) + 1, Len(QUESTIONS))

\* the interviewer's entries of u's history hold the same text twice
DuplicateQuestion(u) ==
    \E i, j \in 1..Len(Asked(u)) : i < j /\ Asked(u)[i] = Asked(u)[j]

\* two requests of one stored session were in flight together, both on the
\* turn counter `at` of an unanswered question, and both have run
Overlapped(u) ==
    \E i, j \in 1..Len(inflight) :
        /\ i < j
        /\ inflight[i].user = u /\ inflight[j].user = u
        /\ inflight[i].done /\ inflight[j].done
        /\ inflight[i].at = inflight[j].at
        /\ inflight[i].at >= 1 /\ inflight[i].at < Len(QUESTIONS)

\* C19 as stated: two chat turns of one session that are in flight together
\* interleave their read-modify-write, which shows once both have run as a
\* lost turn-counter update or a question appended twice.
C19_RaceAsStated ==
    \A u \in DOMAIN interview_state :
        Overlapped(u) => (LostUpdate(u) \/ DuplicateQuestion(u))

\* C19: chat turns in flight together are run one after the other, in any
\* order: no turn-counter update is lost and no question is appended twice.
C19_Serialized ==
    \A u \in DOMAIN interview_state : ~LostUpdate(u) /\ ~DuplicateQuestion(u)

\* two answers of one session were in flight together and both have run
C19_Witness ==
    \E u \in DOMAIN interview_state : Overlapped(u) /\ Answers(u) >= 2
====
